---- MODULE Spec2Model ----
(***************************************************************************)
(* A model of src/LyricMaker.jsx, the "SRT to AE Importer" panel: the time *)
(* decoder parseTime, the line scanner parseSRT and the click handler      *)
(* btnGenerate.onClick with the host calls it makes.                       *)
(*                                                                         *)
(* Text is modelled at character level: a string is a sequence of one-     *)
(* character strings.  Times are whole milliseconds (the value of a        *)
(* JavaScript number times 1000); NaN is the one non-number.  The pasted   *)
(* document is held as its sequence of lines (what line 41 produces), each *)
(* line named by a key of the table LineChars.                             *)
(***************************************************************************)
EXTENDS Integers, Sequences, FiniteSets, TLC

\* ------------------------------------------------------------------ bounds

\* Free documents: every sequence of at most MaxLines lines of FreeLines.
MaxLines == 3
\* Block documents: at most MaxBlocks blocks (index, timing, text, blank).
MaxBlocks == 2

\* ------------------------------------------------------- program constants

\* rawSRT.length < 10
MinLength == 10
\* nextStart of the last cue: 99999 seconds, in milliseconds
FarFuture == 99999000
\* the value of a failed parseFloat (kept apart from every time: no time is negative)
NaN == -1

\* ------------------------------------------------------------- characters

Digit == {"0", "1", "2", "3", "4", "5", "6", "7", "8", "9"}

\* what \s matches among the characters of the model
WhiteSpace == {" ", "\t"}

DigitVal(c) ==
    CASE c = "0" -> 0 [] c = "1" -> 1 [] c = "2" -> 2 [] c = "3" -> 3
      [] c = "4" -> 4 [] c = "5" -> 5 [] c = "6" -> 6 [] c = "7" -> 7
      [] c = "8" -> 8 [] c = "9" -> 9

\* s without its first n characters
Drop(s, n) == SubSeq(s, n + 1, Len(s))

\* s.replace(/^\s+/, '')
RECURSIVE TrimLeft(_)
TrimLeft(s) ==
    IF s # <<>> /\ Head(s) \in WhiteSpace THEN TrimLeft(Tail(s)) ELSE s

\* s.replace(/\s+$/, '')
RECURSIVE TrimRight(_)
TrimRight(s) ==
    IF s # <<>> /\ s[Len(s)] \in WhiteSpace THEN TrimRight(SubSeq(s, 1, Len(s) - 1)) ELSE s

\* line.replace(/^\s+|\s+$/g, '')
Trim(s) == TrimRight(TrimLeft(s))

\* str.replace(/\s/g, '')
StripSpace(s) == SelectSeq(s, LAMBDA c : c \notin WhiteSpace)

\* line.match(/^\d+$/)
IsDigits(s) == Len(s) > 0 /\ \A k \in 1..Len(s) : s[k] \in Digit

\* does sep occur in s at position p
OccursAt(s, sep, p) ==
    /\ p + Len(sep) - 1 <= Len(s)
    /\ \A k \in 1..Len(sep) : s[p + k - 1] = sep[k]

\* String.prototype.split with a non-empty string separator
RECURSIVE Split(_, _)
Split(s, sep) ==
    LET hits == {p \in 1..Len(s) : OccursAt(s, sep, p)}
    IN  IF hits = {} THEN <<s>>
        ELSE LET p == CHOOSE q \in hits : \A r \in hits : q <= r
             IN  <<SubSeq(s, 1, p - 1)>> \o Split(Drop(s, p + Len(sep) - 1), sep)

\* the comma left as it is
ReplaceFirstComma_None(s) == s

\* timeString.replace(',', '.'): a string pattern replaces the first match only
ReplaceFirstComma(s) ==
    LET hits == {p \in 1..Len(s) : s[p] = ","}
    IN  IF hits = {} THEN s
        ELSE LET p == CHOOSE q \in hits : \A r \in hits : q <= r
             IN  [s EXCEPT ![p] = "."]

\* the longest prefix of s made of digits
RECURSIVE DigitPrefix(_)
DigitPrefix(s) ==
    IF s # <<>> /\ Head(s) \in Digit THEN <<Head(s)>> \o DigitPrefix(Tail(s)) ELSE <<>>

RECURSIVE DigitsValue(_)
DigitsValue(ds) ==
    IF ds = <<>> THEN 0
    ELSE 10 * DigitsValue(SubSeq(ds, 1, Len(ds) - 1)) + DigitVal(ds[Len(ds)])

\* the first three fraction digits as thousandths (further digits are below
\* the model's resolution of one millisecond)
Thousandths(fs) ==
    LET d(k) == IF k <= Len(fs) THEN DigitVal(fs[k]) ELSE 0
    IN  100 * d(1) + 10 * d(2) + d(3)

\* parseFloat, in thousandths: the longest numeric prefix (digits, then an
\* optional '.' and digits), NaN when there is none.  A missing part
\* (undefined) is passed as the empty string: parseFloat(undefined) is NaN.
parseFloat(s) ==
    LET ip   == DigitPrefix(s)
        rest == Drop(s, Len(ip))
        fp   == IF rest # <<>> /\ Head(rest) = "." THEN DigitPrefix(Tail(rest)) ELSE <<>>
    IN  IF ip = <<>> /\ fp = <<>> THEN NaN
        ELSE 1000 * DigitsValue(ip) + Thousandths(fp)

\* h * 3600 + m * 60 + s with h, m, s in thousandths; NaN is contagious
\* parseTime with the hours weighted like minutes
parseTime_HoursAsMinutes(timeString) ==
    IF timeString = <<>> THEN 0
    ELSE LET parts == Split(ReplaceFirstComma(timeString), <<":">>)
             part(k) == IF k <= Len(parts) THEN parts[k] ELSE <<>>
             h == parseFloat(part(1))
             m == parseFloat(part(2))
             s == parseFloat(part(3))
         IN  IF h = NaN \/ m = NaN \/ s = NaN THEN NaN
             ELSE (h * 60) + (m * 60) + s

parseTime(timeString) ==
    IF timeString = <<>> THEN 0
    ELSE LET parts == Split(ReplaceFirstComma(timeString), <<":">>)
             part(k) == IF k <= Len(parts) THEN parts[k] ELSE <<>>
             h == parseFloat(part(1))
             m == parseFloat(part(2))
             s == parseFloat(part(3))
         IN  IF h = NaN \/ m = NaN \/ s = NaN THEN NaN
             ELSE (h * 3600) + (m * 60) + s

\* /\d{2}:\d{2}:\d{2}[,.]\d{3}\s-->\s\d{2}:\d{2}:\d{2}[,.]\d{3}/ as a sequence
\* of character classes
TimecodePattern ==
    <<"d", "d", ":", "d", "d", ":", "d", "d", "sep", "d", "d", "d">>

TimingPattern == TimecodePattern \o <<"s", "-", "-", ">", "s">> \o TimecodePattern

InClass(c, cls) ==
    CASE cls = "d"   -> c \in Digit
      [] cls = "sep" -> c \in {",", "."}
      [] cls = "s"   -> c \in WhiteSpace
      [] OTHER       -> c = cls

\* the pattern is not anchored: it may match anywhere in the line
MatchesTiming(line) ==
    \E p \in 1..Len(line) :
        /\ p + Len(TimingPattern) - 1 <= Len(line)
        /\ \A k \in 1..Len(TimingPattern) : InClass(line[p + k - 1], TimingPattern[k])

\* ------------------------------------------------------------ parseSRT

\* One pass of the for loop's body over the (untrimmed) line raw.  The scan
\* state is <<subtitles, currentSub>>; currentSub is <<>> for null and
\* <<cue>> for a cue in progress.
\* the index test without "&& !currentSub"
IsIndexLine_AnyDigits(line, currentSub) == IsDigits(line)

IsIndexLine(line, currentSub) == IsDigits(line) /\ currentSub = <<>>

OpenCue(line) ==
    LET times == Split(line, <<"-", "-", ">">>)
    IN  [start |-> parseTime(StripSpace(times[1])),
         end   |-> parseTime(StripSpace(times[2])),
         text  |-> <<>>]

\* the separator put before the first line too
AppendText_AlwaysSeparator(cue, line) ==
    [cue EXCEPT !.text = @ \o <<"\r">> \o line]

\* currentSub.text += (currentSub.text ? "\r" : "") + line
AppendText(cue, line) ==
    [cue EXCEPT !.text = @ \o (IF @ = <<>> THEN <<>> ELSE <<"\r">>) \o line]

\* unshift for push
PushCue_Front(subtitles, cue) == <<cue>> \o subtitles

\* subtitles.push(currentSub) at a blank line
PushCue(subtitles, cue) == Append(subtitles, cue)

\* the unfinished cue pushed when the next timing line comes
ScanLine_KeepUnfinished(subtitles, currentSub, raw) ==
    LET line == Trim(raw)
    IN  IF IsIndexLine(line, currentSub) THEN <<subtitles, currentSub>>
        ELSE IF MatchesTiming(line)
             THEN <<IF currentSub # <<>> THEN PushCue(subtitles, currentSub[1])
                    ELSE subtitles,
                    <<OpenCue(line)>> >>
        ELSE IF line = <<>>
             THEN IF currentSub # <<>>
                  THEN <<PushCue(subtitles, currentSub[1]), <<>> >>
                  ELSE <<subtitles, currentSub>>
             ELSE IF currentSub # <<>>
                  THEN <<subtitles, <<AppendText(currentSub[1], line)>> >>
                  ELSE <<subtitles, currentSub>>

\* the blank-line branch without its test of currentSub: null is pushed, here
\* a cue without times and text
ScanLine_BlankAlwaysPushes(subtitles, currentSub, raw) ==
    LET line == Trim(raw)
    IN  IF IsIndexLine(line, currentSub) THEN <<subtitles, currentSub>>
        ELSE IF MatchesTiming(line) THEN <<subtitles, <<OpenCue(line)>> >>
        ELSE IF line = <<>>
             THEN IF currentSub # <<>>
                  THEN <<PushCue(subtitles, currentSub[1]), <<>> >>
                  ELSE <<PushCue(subtitles, [start |-> NaN, end |-> NaN, text |-> <<>>]), <<>> >>
             ELSE IF currentSub # <<>>
                  THEN <<subtitles, <<AppendText(currentSub[1], line)>> >>
                  ELSE <<subtitles, currentSub>>

\* the body of the loop over the lines: the new subtitles and currentSub
ScanLine(subtitles, currentSub, raw) ==
    LET line == Trim(raw)
    IN  IF IsIndexLine(line, currentSub) THEN <<subtitles, currentSub>>
        ELSE IF MatchesTiming(line) THEN <<subtitles, <<OpenCue(line)>> >>
        ELSE IF line = <<>>
             THEN IF currentSub # <<>>
                  THEN <<PushCue(subtitles, currentSub[1]), <<>> >>
                  ELSE <<subtitles, currentSub>>
             ELSE IF currentSub # <<>>
                  THEN <<subtitles, <<AppendText(currentSub[1], line)>> >>
                  ELSE <<subtitles, currentSub>>

\* the return without the last push
Finish_Dropped(subtitles, currentSub) == subtitles

\* if (currentSub) subtitles.push(currentSub); return subtitles
Finish(subtitles, currentSub) ==
    IF currentSub # <<>> THEN Append(subtitles, currentSub[1]) ELSE subtitles

\* ------------------------------------------------- the pasted documents

\* HH:MM:SS<sep>mmm from its digits
Timecode(hh, mm, ss, sep, ms) == hh \o <<":">> \o mm \o <<":">> \o ss \o <<sep>> \o ms

Arrow == <<"-", "-", ">">>

\* The lines a document is made of, by name.
LineText(name) ==
    CASE name = "empty" -> <<>>
      [] name = "blank" -> <<" ">>
      [] name = "idx"   -> <<"1", "2">>
      [] name = "a"     -> <<"a">>
      [] name = "b"     -> <<" ", "b", "\t">>
      \* 00:00:01,000 --> 00:00:02,000
      [] name = "t1"    -> Timecode(<<"0","0">>, <<"0","0">>, <<"0","1">>, ",", <<"0","0","0">>)
                           \o <<" ">> \o Arrow \o <<" ">>
                           \o Timecode(<<"0","0">>, <<"0","0">>, <<"0","2">>, ",", <<"0","0","0">>)
      \* 00:00:02,040 --> 00:00:03,000
      [] name = "t2"    -> Timecode(<<"0","0">>, <<"0","0">>, <<"0","2">>, ",", <<"0","4","0">>)
                           \o <<" ">> \o Arrow \o <<" ">>
                           \o Timecode(<<"0","0">>, <<"0","0">>, <<"0","3">>, ",", <<"0","0","0">>)
      \* 00:00:03.000 --> 00:00:01.000
      [] name = "t3"    -> Timecode(<<"0","0">>, <<"0","0">>, <<"0","3">>, ".", <<"0","0","0">>)
                           \o <<" ">> \o Arrow \o <<" ">>
                           \o Timecode(<<"0","0">>, <<"0","0">>, <<"0","1">>, ".", <<"0","0","0">>)
      \* 01:02:03,456 --> 01:02:03.456
      [] name = "t4"    -> Timecode(<<"0","1">>, <<"0","2">>, <<"0","3">>, ",", <<"4","5","6">>)
                           \o <<" ">> \o Arrow \o <<"\t">>
                           \o Timecode(<<"0","1">>, <<"0","2">>, <<"0","3">>, ".", <<"4","5","6">>)
      \* x00:00:01,000 --> 00:00:02,000
      [] name = "tx"    -> <<"x">>
                           \o Timecode(<<"0","0">>, <<"0","0">>, <<"0","1">>, ",", <<"0","0","0">>)
                           \o <<" ">> \o Arrow \o <<" ">>
                           \o Timecode(<<"0","0">>, <<"0","0">>, <<"0","2">>, ",", <<"0","0","0">>)
      \* 00:00:01,000-->00:00:02,000
      [] name = "tn"    -> Timecode(<<"0","0">>, <<"0","0">>, <<"0","1">>, ",", <<"0","0","0">>)
                           \o Arrow
                           \o Timecode(<<"0","0">>, <<"0","0">>, <<"0","2">>, ",", <<"0","0","0">>)
      \* 00:00:01,000  -->  00:00:02,000
      [] name = "tw"    -> Timecode(<<"0","0">>, <<"0","0">>, <<"0","1">>, ",", <<"0","0","0">>)
                           \o <<" ", " ">> \o Arrow \o <<" ", " ">>
                           \o Timecode(<<"0","0">>, <<"0","0">>, <<"0","2">>, ",", <<"0","0","0">>)

LineNames == {"empty", "blank", "idx", "a", "b", "t1", "t2", "t3", "t4", "tx", "tn", "tw"}

LineTable == [name \in LineNames |-> LineText(name)]

\* the characters of a line of the document
LineChars(name) == LineTable[name]

FreeLines == {"empty", "blank", "idx", "b", "t1", "tx", "tn", "tw"}

BlockTimings == {"t1", "t2", "t3", "t4"}

BlockTexts == {<<"a">>, <<"idx", "b">>}

\* a block without the blank line that closes it
BlockLines == {<<"idx", t>> \o x : t \in BlockTimings, x \in BlockTexts}

RECURSIVE Bodies(_)
Bodies(k) ==
    IF k = 1 THEN BlockLines
    ELSE {b \o <<"empty">> \o r : b \in BlockLines, r \in Bodies(k - 1)}

\* the text ends right after the last text line, or with "\n\n"
Tails == {<<>>, <<"empty", "empty">>}

FreeDocs == UNION {[1..n -> FreeLines] : n \in 1..MaxLines}

BlockDocs == UNION {{b \o t : b \in Bodies(k), t \in Tails} : k \in 1..MaxBlocks}

Inputs == FreeDocs \cup BlockDocs

\* rawSRT.length: the characters of the lines and one line break between two lines
RECURSIVE RawLength(_)
RawLength(doc) ==
    IF doc = <<>> THEN 0
    ELSE Len(LineChars(Head(doc))) + (IF Len(doc) > 1 THEN 1 ELSE 0) + RawLength(Tail(doc))

\* the length test off by one
TooShort_OffByOne(doc) == RawLength(doc) < MinLength - 1

TooShort(doc) == RawLength(doc) < MinLength

\* the frame durations of the composition: 25 and 50 frames per second
FrameDurations == {40, 20}

\* ------------------------------------------------------------ host model

\* A text property's keyframes: a sequence of [time, text] ordered by time,
\* one key per time.  setValueAtTime replaces the key at that time if there
\* is one and inserts a key otherwise.
SetValueAtTime(keys, t, v) ==
    IF \E k \in 1..Len(keys) : keys[k].time = t
    THEN [k \in 1..Len(keys) |-> IF keys[k].time = t THEN [time |-> t, text |-> v] ELSE keys[k]]
    ELSE LET before == SelectSeq(keys, LAMBDA key : key.time < t)
             after  == SelectSeq(keys, LAMBDA key : key.time > t)
         IN  before \o <<[time |-> t, text |-> v]>> \o after

\* removeKey(1)
RemoveFirstKey(keys) == Tail(keys)

\* how many keyframes the template's Source Text carries
TemplateKeyCounts == {0, 2}

TemplateKeys(n) == [k \in 1..n |-> [time |-> 700 * k, text |-> <<"T">>]]

\* the gap test with >= for >
GapExceeds_NotStrict(nextStart, end, gap) ==
    nextStart # NaN /\ end # NaN /\ nextStart - end >= gap

\* the clear key set whenever the next cue does not start before the end
GapExceeds_NoThreshold(nextStart, end, gap) ==
    nextStart # NaN /\ end # NaN /\ nextStart - end >= 0

\* the clear key set after every cue, as the comment at lines 128-130 considers
GapExceeds_Always(nextStart, end, gap) == TRUE

\* nextStart - s.end > comp.frameDuration; a comparison with NaN is false
GapExceeds(nextStart, end, gap) ==
    nextStart # NaN /\ end # NaN /\ nextStart - end > gap

NextStart(cues, k) == IF k < Len(cues) THEN cues[k + 1].start ELSE FarFuture

\* ------------------------------------------------------------------ state

VARIABLES
    srtInput,       \* the text field: the document's lines
    modeRadio1,     \* the "one layer" radio button
    host,           \* "ok", "noComp" (no active composition), "badSelection"
    frameDuration,  \* comp.frameDuration
    templateLayer,  \* the selected text layer
    layers,         \* the layers the script created, top of the stack first
    pc,             \* where the click handler is
    i,              \* the loop index of the loop being run (1-based)
    subtitles,      \* parseSRT's result under construction
    currentSub,     \* parseSRT's cue in progress: <<>> or <<cue>>
    subs,           \* what parseSRT returned
    events,         \* the setValueAtTime calls made, in order
    undoOpened,     \* beginUndoGroup calls
    undoClosed,     \* endUndoGroup calls
    alerts,         \* the alerts shown
    timeString,     \* the argument of a call of parseTime on its own
    seconds         \* that call's result: <<>> before the call, <<value>> after

vars == <<srtInput, modeRadio1, host, frameDuration, templateLayer, layers, pc, i,
          subtitles, currentSub, subs, events, undoOpened, undoClosed, alerts,
          timeString, seconds>>

codec == <<timeString, seconds>>

ui == <<srtInput, modeRadio1, host, frameDuration>>

parser == <<subtitles, currentSub, subs>>

undo == <<undoOpened, undoClosed>>

NewTemplate(n) ==
    [name |-> "Template", enabled |-> TRUE, label |-> 1, inPoint |-> 0,
     outPoint |-> 60000, text |-> <<"T">>, keys |-> TemplateKeys(n)]

\* The state when the button is clicked.  A click that the host's state
\* rejects reads neither the mode, the frame duration nor the template: it
\* is started with one setting of them.
Init ==
    /\ srtInput \in Inputs
    /\ modeRadio1 \in BOOLEAN
    /\ host \in {"ok", "noComp", "badSelection"}
    /\ frameDuration \in FrameDurations
    /\ \E n \in TemplateKeyCounts : templateLayer = NewTemplate(n)
    /\ host # "ok" => (modeRadio1 /\ frameDuration = 40 /\ templateLayer.keys = <<>>)
    /\ layers = <<>>
    /\ pc = "idle"
    /\ i = 0
    /\ subtitles = <<>>
    /\ currentSub = <<>>
    /\ subs = <<>>
    /\ events = <<>>
    /\ undoOpened = 0
    /\ undoClosed = 0
    /\ alerts = <<>>
    /\ timeString = <<>>
    /\ seconds = <<>>

\* ---------------------------------------------------- btnGenerate.onClick

\* if (!(comp instanceof CompItem)) { alert(...); return; }
ClickNoComp ==
    /\ pc = "idle"
    /\ host = "noComp"
    /\ alerts' = Append(alerts, "openComp")
    /\ pc' = "done"
    /\ UNCHANGED <<codec, ui, templateLayer, layers, i, parser, events, undo>>

\* if (selectedLayers.length !== 1 || !(selectedLayers[0] instanceof TextLayer))
ClickBadSelection ==
    /\ pc = "idle"
    /\ host = "badSelection"
    /\ alerts' = Append(alerts, "selectTemplate")
    /\ pc' = "done"
    /\ UNCHANGED <<codec, ui, templateLayer, layers, i, parser, events, undo>>

\* if (rawSRT.length < 10) { alert(...); return; }
ClickTooShort ==
    /\ pc = "idle"
    /\ host = "ok"
    /\ TooShort(srtInput)
    /\ alerts' = Append(alerts, "pasteSRT")
    /\ pc' = "done"
    /\ UNCHANGED <<codec, ui, templateLayer, layers, i, parser, events, undo>>

\* var subs = parseSRT(rawSRT): the call, up to the for loop
ClickParse ==
    /\ pc = "idle"
    /\ host = "ok"
    /\ ~TooShort(srtInput)
    /\ pc' = "parse"
    /\ i' = 1
    /\ subtitles' = <<>>
    /\ currentSub' = <<>>
    /\ UNCHANGED <<codec, ui, templateLayer, layers, subs, events, undo, alerts>>

\* one iteration of parseSRT's for loop
ParseLine ==
    /\ pc = "parse"
    /\ i <= Len(srtInput)
    /\ \E next \in {ScanLine(subtitles, currentSub, LineChars(srtInput[i]))} :
           /\ subtitles' = next[1]
           /\ currentSub' = next[2]
    /\ i' = i + 1
    /\ UNCHANGED <<codec, ui, templateLayer, layers, pc, subs, events, undo, alerts>>

\* the end of parseSRT: the last push and the return
ParseReturn ==
    /\ pc = "parse"
    /\ i > Len(srtInput)
    /\ subtitles' = Finish(subtitles, currentSub)
    /\ subs' = subtitles'
    /\ pc' = "begin"
    /\ UNCHANGED <<codec, ui, templateLayer, layers, i, currentSub, events, undo, alerts>>

\* app.beginUndoGroup("Generate Subtitles")
BeginUndoGroup ==
    /\ pc = "begin"
    /\ undoOpened' = undoOpened + 1
    /\ pc' = IF modeRadio1 THEN "duplicate" ELSE "layers"
    /\ i' = 1
    /\ UNCHANGED <<codec, ui, templateLayer, layers, parser, events, undoClosed, alerts>>

\* var targetLayer = templateLayer.duplicate(); targetLayer.name = "Subtitles_Track"
DuplicateTemplate ==
    /\ pc = "duplicate"
    /\ layers' = <<[templateLayer EXCEPT !.name = "Subtitles_Track"]>> \o layers
    /\ pc' = "removeKeys"
    /\ UNCHANGED <<codec, ui, templateLayer, i, parser, events, undo, alerts>>

\* the loop left while one key remains
HasKeys_MoreThanOne(keys) == Len(keys) > 1

\* textProp.numKeys > 0
HasKeys(keys) == Len(keys) > 0

\* while (textProp.numKeys > 0) textProp.removeKey(1): one iteration
RemoveKey ==
    /\ pc = "removeKeys"
    /\ HasKeys(layers[1].keys)
    /\ layers' = [layers EXCEPT ![1].keys = RemoveFirstKey(@)]
    /\ UNCHANGED <<codec, ui, templateLayer, pc, i, parser, events, undo, alerts>>

\* the while loop ends; the for loop over subs starts
KeysRemoved ==
    /\ pc = "removeKeys"
    /\ ~HasKeys(layers[1].keys)
    /\ pc' = "show"
    /\ i' = 1
    /\ UNCHANGED <<codec, ui, templateLayer, layers, parser, events, undo, alerts>>

\* textProp.setValueAtTime(s.start, new TextDocument(s.text))
ShowCue ==
    /\ pc = "show"
    /\ i <= Len(subs)
    /\ layers' = [layers EXCEPT ![1].keys = SetValueAtTime(@, subs[i].start, subs[i].text)]
    /\ events' = Append(events, [time |-> subs[i].start, text |-> subs[i].text,
                                 cue |-> i, clear |-> FALSE])
    /\ pc' = "gap"
    /\ UNCHANGED <<codec, ui, templateLayer, i, parser, undo, alerts>>

\* the clear key set at the cue's start
ClearTime_Start(s) == s.start

\* the time of the clear key: s.end
ClearTime(s) == s.end

\* var nextStart = ...; if (nextStart - s.end > comp.frameDuration) setValueAtTime(s.end, "")
ClearCue ==
    /\ pc = "gap"
    /\ IF GapExceeds(NextStart(subs, i), subs[i].end, frameDuration)
       THEN /\ layers' = [layers EXCEPT ![1].keys = SetValueAtTime(@, ClearTime(subs[i]), <<>>)]
            /\ events' = Append(events, [time |-> ClearTime(subs[i]), text |-> <<>>,
                                         cue |-> i, clear |-> TRUE])
       ELSE UNCHANGED <<layers, events>>
    /\ i' = i + 1
    /\ pc' = "show"
    /\ UNCHANGED <<codec, ui, templateLayer, parser, undo, alerts>>

\* the layer named by the loop index as it is, not by the index plus one
newLayer_ZeroBased(template, s, k) ==
    [template EXCEPT !.name = <<"Sub_", k - 1>>, !.inPoint = s.start,
                     !.outPoint = s.end, !.text = s.text]

\* newLayer: the duplicate of the template, renamed "Sub_" + (i + 1), trimmed
\* to the cue and given its text; k is i + 1
newLayer(template, s, k) ==
    [template EXCEPT !.name = <<"Sub_", k>>, !.inPoint = s.start,
                     !.outPoint = s.end, !.text = s.text]

\* separate-layers mode: one iteration of the for loop; the duplicate is
\* moved to the beginning of the layer stack
MakeLayer ==
    /\ pc = "layers"
    /\ i <= Len(subs)
    /\ layers' = <<newLayer(templateLayer, subs[i], i)>> \o layers
    /\ i' = i + 1
    /\ UNCHANGED <<codec, ui, templateLayer, pc, parser, events, undo, alerts>>

\* templateLayer.enabled = false; .label = 0; .name = "Template (Hidden)"
HideTemplate ==
    /\ pc \in {"show", "layers"}
    /\ i > Len(subs)
    /\ templateLayer' = [templateLayer EXCEPT !.enabled = FALSE, !.label = 0,
                                              !.name = "Template (Hidden)"]
    /\ pc' = "end"
    /\ UNCHANGED <<codec, ui, layers, i, parser, events, undo, alerts>>

\* the handler ended without the call of endUndoGroup
EndUndoGroup_NotClosed ==
    /\ pc = "end"
    /\ pc' = "done"
    /\ UNCHANGED <<codec, ui, templateLayer, layers, i, parser, events, undo, alerts>>

\* app.endUndoGroup()
EndUndoGroup ==
    /\ pc = "end"
    /\ undoClosed' = undoClosed + 1
    /\ pc' = "done"
    /\ UNCHANGED <<codec, ui, templateLayer, layers, i, parser, events, undoOpened, alerts>>

Next ==
    \/ ClickNoComp
    \/ ClickBadSelection
    \/ ClickTooShort
    \/ ClickParse
    \/ ParseLine
    \/ ParseReturn
    \/ BeginUndoGroup
    \/ DuplicateTemplate
    \/ RemoveKey
    \/ KeysRemoved
    \/ ShowCue
    \/ ClearCue
    \/ MakeLayer
    \/ HideTemplate
    \/ EndUndoGroup

Spec == Init /\ [][Next]_vars

\* ------------------------------------------------- parseTime on its own

\* the digit groups the timecode tokens are drawn from
TokenHours == {<<"0","0">>, <<"0","1">>, <<"1","0">>}

TokenMinutes == {<<"0","0">>, <<"0","2">>, <<"5","9">>}

TokenSeconds == {<<"0","0">>, <<"0","3">>, <<"5","9">>}

TokenMillis == {<<"0","0","0">>, <<"4","5","6">>, <<"9","9","9">>}

\* HH:MM:SS,mmm and HH:MM:SS.mmm tokens, and the empty (or missing) token
Tokens ==
    {Timecode(hh, mm, ss, sep, ms) :
        hh \in TokenHours, mm \in TokenMinutes, ss \in TokenSeconds,
        sep \in {",", "."}, ms \in TokenMillis}
    \cup {<<>>}

InitTime ==
    /\ timeString \in Tokens
    /\ seconds = <<>>
    /\ srtInput = <<"empty">>
    /\ modeRadio1 = TRUE
    /\ host = "ok"
    /\ frameDuration = 40
    /\ templateLayer = NewTemplate(0)
    /\ layers = <<>>
    /\ pc = "idle"
    /\ i = 0
    /\ subtitles = <<>>
    /\ currentSub = <<>>
    /\ subs = <<>>
    /\ events = <<>>
    /\ undoOpened = 0
    /\ undoClosed = 0
    /\ alerts = <<>>

\* seconds = parseTime(timeString)
CallParseTime ==
    /\ seconds = <<>>
    /\ seconds' = <<parseTime(timeString)>>
    /\ UNCHANGED <<timeString, ui, templateLayer, layers, pc, i, parser, events, undo, alerts>>

NextTime == CallParseTime

SpecTime == InitTime /\ [][NextTime]_vars

\* ------------------------------------------------- vocabulary of the claims

\* parseSRT has returned (the click was not rejected)
Returned ==
    \/ pc \in {"begin", "duplicate", "removeKeys", "show", "gap", "layers", "end"}
    \/ pc = "done" /\ alerts = <<>>

\* the template as the click found it
TemplateUntouched ==
    /\ templateLayer.name = "Template"
    /\ templateLayer.enabled
    /\ templateLayer.label = 1

\* comparisons of JavaScript numbers: false when an operand is NaN
Less(a, b) == a # NaN /\ b # NaN /\ a < b

AtMost(a, b) == a # NaN /\ b # NaN /\ a <= b

\* the k-th line of the document, trimmed
TrimmedLine(k) == Trim(LineChars(srtInput[k]))

BlankAt(k) == TrimmedLine(k) = <<>>

TimingAt(k) == MatchesTiming(TrimmedLine(k))

DigitsAt(k) == IsDigits(TrimmedLine(k))

TextAt(k) == ~BlankAt(k) /\ ~TimingAt(k)

\* the trimmed lines from..to joined by one "\r" between two lines
RECURSIVE JoinLines(_, _)
JoinLines(from, to) ==
    IF from > to THEN <<>>
    ELSE IF from = to THEN TrimmedLine(from)
    ELSE TrimmedLine(from) \o <<"\r">> \o JoinLines(from + 1, to)

\* A well-formed block starting at line p: an index line, a timing line, one
\* or more text lines, a blank line.  BlockEnd(p) is the line of its blank
\* line, 0 when no well-formed block starts at p.
BlockEnd(p) ==
    IF /\ p + 3 <= Len(srtInput)
       /\ DigitsAt(p)
       /\ TimingAt(p + 1)
       /\ TextAt(p + 2)
       /\ \E q \in (p + 3)..Len(srtInput) : BlankAt(q)
    THEN LET q == CHOOSE r \in (p + 3)..Len(srtInput) :
                      BlankAt(r) /\ \A t \in (p + 3)..(r - 1) : ~BlankAt(t)
         IN  IF \A t \in (p + 2)..(q - 1) : TextAt(t) THEN q ELSE 0
    ELSE 0

\* The first lines of the well-formed blocks the document is made of, when
\* it is a sequence of well-formed blocks followed by at most the empty
\* remainder after the last line break; <<0>> otherwise.
RECURSIVE BlockStarts(_)
BlockStarts(p) ==
    IF p > Len(srtInput) THEN <<>>
    ELSE IF p = Len(srtInput) /\ p > 1 /\ LineChars(srtInput[p]) = <<>> THEN <<>>
    ELSE IF BlockEnd(p) = 0 THEN <<0>>
    ELSE LET rest == BlockStarts(BlockEnd(p) + 1)
         IN  IF rest # <<>> /\ rest[Len(rest)] = 0 THEN <<0>> ELSE <<p>> \o rest

WellFormed == BlockStarts(1) # <<0>>

\* the cue of the well-formed block that starts at line p
BlockCue(p) ==
    [OpenCue(TrimmedLine(p + 1)) EXCEPT !.text = JoinLines(p + 2, BlockEnd(p) - 1)]

\* HH:MM:SS<sep>mmm read digit by digit, in milliseconds
TimecodeValue(tc) ==
    LET d(k) == DigitVal(tc[k])
    IN  ((10 * d(1) + d(2)) * 3600 + (10 * d(4) + d(5)) * 60 + (10 * d(7) + d(8))) * 1000
        + 100 * d(10) + 10 * d(11) + d(12)

\* line k is two timecodes and the arrow between them, and nothing else
PlainTimingAt(k) ==
    /\ Len(TrimmedLine(k)) = Len(TimingPattern)
    /\ \A j \in 1..Len(TimingPattern) : InClass(TrimmedLine(k)[j], TimingPattern[j])

\* a single-track generation has run all its loop
SingleTrackDone == modeRadio1 /\ Returned /\ pc \in {"end", "done"}

\* the cues whose loop body has run in single-track mode
Processed ==
    IF ~(modeRadio1 /\ Returned) THEN {}
    ELSE IF pc = "show" THEN 1..(i - 1)
    ELSE IF pc \in {"end", "done"} THEN 1..Len(subs)
    ELSE {}

ClearEmitted(k) ==
    \E e \in 1..Len(events) : events[e].cue = k /\ events[e].clear

\* ------------------------------------------------------------------ claims

C2_BlocksGiveCuesInOrder ==
    (pc = "begin" /\ WellFormed) =>
        LET starts == BlockStarts(1)
        IN  /\ Len(subs) = Len(starts)
            /\ \A k \in 1..Len(starts) : subs[k] = BlockCue(starts[k])

\* C2 witness: two well-formed blocks parsed into two different cues.
C2_Witness ==
    /\ pc = "begin"
    /\ WellFormed
    /\ Len(BlockStarts(1)) = 2
    /\ Len(subs) = 2
    /\ subs[1] # subs[2]

\* the timing line that opened the cue still in progress at the end of the
\* document: the last timing line, when no blank line follows it (0 if none)
OpenAtEnd ==
    LET open == {j \in 1..Len(srtInput) :
                    /\ TimingAt(j)
                    /\ \A k \in (j + 1)..Len(srtInput) : ~TimingAt(k) /\ ~BlankAt(k)}
    IN  IF open = {} THEN 0 ELSE CHOOSE j \in open : TRUE

\* C3: a cue still in progress after the last line is finalized and is the
\* last element of parseSRT's result.
C3_LastCueKept ==
    (pc = "begin" /\ OpenAtEnd # 0) =>
        /\ subs # <<>>
        /\ subs[Len(subs)] =
              [OpenCue(TrimmedLine(OpenAtEnd)) EXCEPT
                  !.text = JoinLines(OpenAtEnd + 1, Len(srtInput))]

\* C3 witness: a document without a final blank line whose last cue, with
\* its text, follows an earlier cue in the result.
C3_Witness ==
    /\ pc = "begin"
    /\ OpenAtEnd # 0
    /\ OpenAtEnd < Len(srtInput)
    /\ Len(subs) >= 2

\* C4: an all-digit line is dropped as an index line only when no cue is in
\* progress; with a cue in progress it is appended to the cue's text.
C4_DigitsAreTextInsideCue ==
    [][(pc = "parse" /\ i <= Len(srtInput) /\ DigitsAt(i)) =>
          /\ subtitles' = subtitles
          /\ IF currentSub = <<>>
             THEN currentSub' = <<>>
             ELSE currentSub' =
                    <<[currentSub[1] EXCEPT
                        !.text = IF @ = <<>> THEN TrimmedLine(i)
                                 ELSE @ \o <<"\r">> \o TrimmedLine(i)]>>]_vars

\* C4 witness: the line just scanned was all digits and is now the cue's text.
C4_Witness ==
    /\ pc = "parse"
    /\ i > 1
    /\ DigitsAt(i - 1)
    /\ currentSub # <<>>
    /\ currentSub[1].text = TrimmedLine(i - 1)

\* the document is one well-formed block with one text line
SingleBlock ==
    /\ Len(srtInput) \in {4, 5}
    /\ DigitsAt(1)
    /\ PlainTimingAt(2)
    /\ TextAt(3)
    /\ \A k \in 4..Len(srtInput) : LineChars(srtInput[k]) = <<>>

\* C5: one well-formed block gives exactly one cue, with the two timecodes
\* of the timing line as start and end and the text line as text (so
\* without the index line's digits).
C5_SingleBlockOneCue ==
    (pc = "begin" /\ SingleBlock) =>
        subs = <<[start |-> TimecodeValue(SubSeq(TrimmedLine(2), 1, 12)),
                  end   |-> TimecodeValue(SubSeq(TrimmedLine(2), 18, 29)),
                  text  |-> TrimmedLine(3)]>>

\* C5 witness: a single block with hours and minutes in its timecodes.
C5_Witness ==
    /\ pc = "begin"
    /\ SingleBlock
    /\ Len(subs) = 1
    /\ subs[1].start > 3600 * 1000

\* no event has a smaller time than an event emitted before it
EventsAscending ==
    \A j, k \in 1..Len(events) : j < k => ~Less(events[k].time, events[j].time)

\* C6 as claimed: for every cue sequence parseSRT returns the single-track
\* events are emitted in ascending time order.
C6_EventsAlwaysAscending == EventsAscending

\* the cues are in ascending order of start and none ends before it starts
CuesInOrder ==
    /\ \A k \in 1..Len(subs) : AtMost(subs[k].start, subs[k].end)
    /\ \A k \in 1..(Len(subs) - 1) : AtMost(subs[k].start, subs[k + 1].start)

\* C6 as amended: the events are emitted in ascending time order when the
\* cues' start times are non-decreasing and every cue has start <= end.
C6_EventsAscendingForOrderedCues ==
    (Returned /\ CuesInOrder) => EventsAscending

\* C6 witness: ordered cues gave show, clear, show, clear.
C6_Witness ==
    /\ SingleTrackDone
    /\ CuesInOrder
    /\ Len(events) >= 4
    /\ events[2].clear
    /\ events[2].time < events[3].time

\* a timecode string with a wrong number of parts or a part that is no number
Malformed(tc) ==
    LET parts == Split(ReplaceFirstComma(tc), <<":">>)
    IN  Len(parts) # 3 \/ \E k \in 1..Len(parts) : parseFloat(parts[k]) = NaN

MalformedTimingAt(k) ==
    /\ TimingAt(k)
    /\ LET times == Split(TrimmedLine(k), <<"-", "-", ">">>)
       IN  Malformed(StripSpace(times[1])) \/ Malformed(StripSpace(times[2]))

\* C7: a timing line with a timecode that fails numeric parsing aborts the
\* parse: no cue list is returned.
C7_MalformedTimecodeAborts ==
    Returned => ~\E k \in 1..Len(srtInput) : MalformedTimingAt(k)

\* C8: a parse that yields zero cues is reported and changes nothing: no
\* layer is duplicated, no keyframe written, the template left as it was.
C8_NoCuesReported ==
    (Returned /\ subs = <<>>) =>
        /\ layers = <<>>
        /\ events = <<>>
        /\ TemplateUntouched
        /\ pc = "done" => alerts # <<>>

\* C9: a text of fewer than 10 characters is rejected before any parsing:
\* parseSRT is not called, no undo group is opened, nothing is changed.
C9_ShortInputRejected ==
    \/ /\ pc \in {"idle", "done"}
       /\ subtitles = <<>> /\ currentSub = <<>> /\ subs = <<>>
       /\ undoOpened = 0 /\ undoClosed = 0
       /\ layers = <<>>
       /\ events = <<>>
       /\ TemplateUntouched
       /\ templateLayer.keys = TemplateKeys(Len(templateLayer.keys))
       /\ pc = "done" => alerts # <<>>
       /\ (pc = "done" /\ host = "ok") => alerts = <<"pasteSRT">>
    \/ RawLength(srtInput) >= 10

\* C9 witness: a click on a nine-character text was answered with the alert.
C9_Witness ==
    /\ RawLength(srtInput) = 9
    /\ host = "ok"
    /\ pc = "done"
    /\ alerts = <<"pasteSRT">>

\* C10: every cue parseSRT returns has start <= end.
C10_StartNotAfterEnd ==
    \A k \in 1..Len(subs) :
        (subs[k].start # NaN /\ subs[k].end # NaN) => subs[k].start <= subs[k].end

\* the token with the other fraction separator
OtherSeparator(tc) ==
    [k \in 1..Len(tc) |-> IF tc[k] = "," THEN "." ELSE IF tc[k] = "." THEN "," ELSE tc[k]]

\* C11: parseTime of HH:MM:SS,mmm or HH:MM:SS.mmm is H*3600 + M*60 + S +
\* mmm/1000 (in whole milliseconds), the same for both separators, and 0
\* for the empty token; "01:02:03,456" gives 3723.456, "00:00:00,000" gives 0.
C11_ParseTimeValue ==
    seconds # <<>> =>
        /\ seconds[1] = IF timeString = <<>> THEN 0 ELSE TimecodeValue(timeString)
        /\ timeString # <<>> => TimecodeValue(OtherSeparator(timeString)) = seconds[1]
        /\ timeString = <<"0","1",":","0","2",":","0","3",",","4","5","6">>
              => seconds[1] = 3723456
        /\ timeString = <<"0","0",":","0","0",":","0","0",",","0","0","0">>
              => seconds[1] = 0

\* C11 witness: parseTime("01:02:03,456") has returned 3723.456.
C11_Witness ==
    /\ timeString = <<"0","1",":","0","2",":","0","3",",","4","5","6">>
    /\ seconds = <<3723456>>

\* the layer made for cue k in separate-layers mode: each new layer is moved
\* to the beginning of the stack, so the layers are in reverse cue order
LayerOfCue(k) == layers[Len(layers) - k + 1]

\* C12: separate-layers mode makes exactly one layer per cue, in cue order,
\* the layer of cue k (counted from 1) named "Sub_" + k with inPoint the
\* cue's start, outPoint the cue's end and the cue's text; no key is written,
\* and nothing of a layer comes from another cue.
C12_OneLayerPerCue ==
    (~modeRadio1 /\ pc \in {"layers", "end", "done"}) =>
        /\ Len(layers) = IF pc = "layers" THEN i - 1 ELSE Len(subs)
        /\ events = <<>>
        /\ \A k \in 1..Len(layers) :
              /\ LayerOfCue(k).name = <<"Sub_", k>>
              /\ LayerOfCue(k).inPoint = subs[k].start
              /\ LayerOfCue(k).outPoint = subs[k].end
              /\ LayerOfCue(k).text = subs[k].text
              /\ LayerOfCue(k).keys = templateLayer.keys
              /\ LayerOfCue(k).enabled
              /\ LayerOfCue(k).label = 1

\* C12 witness: two cues with different texts have given the layers Sub_1
\* and Sub_2.
C12_Witness ==
    /\ ~modeRadio1
    /\ pc = "done"
    /\ Len(subs) = 2
    /\ Len(layers) = 2
    /\ LayerOfCue(1).name = <<"Sub_", 1>>
    /\ LayerOfCue(2).name = <<"Sub_", 2>>
    /\ LayerOfCue(1).text # LayerOfCue(2).text

\* single-layer mode, from the first iteration of the for loop on
SingleTrackWriting ==
    modeRadio1 /\ undoOpened = 1 /\ pc \in {"show", "gap", "end", "done"}

\* C13: in single-layer mode the keys the duplicate copied from the template
\* are all removed before the first key is written: the target has no key
\* when the first setValueAtTime is about to be called, and from then on
\* every key of the target is one this generation wrote.
C13_KeysRemovedBeforeWriting ==
    SingleTrackWriting =>
        /\ events = <<>> => layers[1].keys = <<>>
        /\ \A k \in 1..Len(layers[1].keys) :
              \E e \in 1..Len(events) :
                  /\ events[e].time = layers[1].keys[k].time
                  /\ events[e].text = layers[1].keys[k].text

\* C13 witness: the template had keys, and after generation the target has
\* the keys of the cues.
C13_Witness ==
    /\ SingleTrackWriting
    /\ pc = "done"
    /\ templateLayer.keys # <<>>
    /\ layers[1].keys # <<>>

\* the loop of parseSRT is about to scan line i
Scanning == pc = "parse" /\ i <= Len(srtInput)

\* the cue of timing line j is replaced before it is finished: another
\* timing line follows with no blank line in between
Superseded(j) ==
    \E k \in (j + 1)..Len(srtInput) :
        /\ TimingAt(k)
        /\ \A m \in (j + 1)..(k - 1) : ~BlankAt(m)

\* C14: a timing line scanned while a cue is in progress discards that cue:
\* no cue is pushed at that line, the cue in progress becomes the new line's
\* cue with empty text, and parseSRT returns one cue for each timing line
\* whose cue is not replaced in this way, so a discarded cue is never
\* returned.
C14_UnfinishedCueDiscarded ==
    /\ [][(Scanning /\ TimingAt(i) /\ currentSub # <<>>) =>
              /\ subtitles' = subtitles
              /\ currentSub' # <<>>
              /\ currentSub'[1].text = <<>>
              /\ PlainTimingAt(i) =>
                    /\ currentSub'[1].start = TimecodeValue(SubSeq(TrimmedLine(i), 1, 12))
                    /\ currentSub'[1].end = TimecodeValue(SubSeq(TrimmedLine(i), 18, 29))]_vars
    /\ [](pc = "begin" =>
              Len(subs) = Cardinality({j \in 1..Len(srtInput) : TimingAt(j) /\ ~Superseded(j)}))

\* C14 witness: a timing line, a text line and a second timing line have
\* been scanned; the first cue and its text are gone.
C14_Witness ==
    /\ pc = "parse"
    /\ i = 4
    /\ TimingAt(1)
    /\ TextAt(2)
    /\ TimingAt(3)
    /\ subtitles = <<>>
    /\ currentSub # <<>>
    /\ currentSub[1].text = <<>>

\* C15: while no cue is in progress, scanning a text line or a blank (empty
\* or whitespace-only) line changes neither the finalized cues nor the
\* no-cue-in-progress condition; a document without a timing line gives no
\* cue at all.
C15_NoCueNoChange ==
    /\ [][(Scanning /\ currentSub = <<>> /\ ~TimingAt(i)) =>
              /\ subtitles' = subtitles
              /\ currentSub' = <<>>]_vars
    /\ [](pc = "begin" =>
              ((\A k \in 1..Len(srtInput) : ~TimingAt(k)) => subs = <<>>))

\* C15 witness: a text line and a whitespace-only line have been scanned
\* before any timing line, and there is neither a cue nor a cue in progress.
C15_Witness ==
    /\ pc = "parse"
    /\ i = 3
    /\ TextAt(1)
    /\ ~DigitsAt(1)
    /\ LineChars(srtInput[2]) = <<" ">>
    /\ subtitles = <<>>
    /\ currentSub = <<>>

\* the last timing line scanned so far
LastTiming == CHOOSE j \in 1..(i - 1) : TimingAt(j) /\ \A k \in (j + 1)..(i - 1) : ~TimingAt(k)

\* a text that neither starts nor ends with the separator
NoOuterSeparator(text) == text = <<>> \/ (text[1] # "\r" /\ text[Len(text)] # "\r")

\* C16: the text of a cue is the trimmed text lines that follow its timing
\* line, in order, with exactly one line-break separator between two
\* consecutive lines and none at either end; the blank line finalizes the
\* cue with that text, and no line scanned later changes a finalized cue.
C16_TextLinesJoined ==
    /\ []((pc = "parse" /\ currentSub # <<>>) =>
              /\ currentSub[1].text = JoinLines(LastTiming + 1, i - 1)
              /\ NoOuterSeparator(currentSub[1].text))
    /\ [][Scanning =>
              /\ Len(subtitles') >= Len(subtitles)
              /\ \A k \in 1..Len(subtitles) : subtitles'[k] = subtitles[k]
              /\ Len(subtitles') > Len(subtitles) =>
                    /\ BlankAt(i)
                    /\ currentSub # <<>>
                    /\ subtitles' = Append(subtitles, currentSub[1])]_vars

\* C16 witness: the cue of two text lines is finalized with one separator
\* between them, and lines of a second cue have been scanned since.
C16_Witness ==
    /\ pc = "parse"
    /\ Len(subtitles) = 1
    /\ subtitles[1].text = <<"1", "2", "\r", "b">>
    /\ currentSub # <<>>
    /\ currentSub[1].text # <<>>

\* line k is a timecode, the arrow with any whitespace (none, one character,
\* several) on either side, and a timecode
ArrowLineAt(k) ==
    LET line == TrimmedLine(k)
        n == Len(TimecodePattern)
    IN  /\ Len(line) >= 2 * n + Len(Arrow)
        /\ \A j \in 1..n : InClass(line[j], TimecodePattern[j])
        /\ \A j \in 1..n : InClass(line[Len(line) - n + j], TimecodePattern[j])
        /\ StripSpace(SubSeq(line, n + 1, Len(line) - n)) = Arrow

\* C17: a line made of two timecodes separated by the arrow is a timing
\* line and opens a new cue whatever the amount of whitespace around the
\* arrow: once it is scanned, the cue in progress is its cue, with its times
\* and empty text.
C17_AnyWhitespaceAroundArrow ==
    (pc = "parse" /\ i > 1 /\ ArrowLineAt(i - 1)) =>
        /\ currentSub # <<>>
        /\ currentSub[1].text = <<>>
        /\ currentSub[1].start = TimecodeValue(TrimmedLine(i - 1))

\* C18: for a positive frame duration, a clear event is emitted for a cue
\* that has a next cue only if the cue's end is strictly before the next
\* cue's start, so the clear event and the next cue's show event are never
\* at the same instant.
C18_ClearBeforeNextShow ==
    frameDuration > 0 =>
        \A e \in 1..Len(events) :
            (events[e].clear /\ events[e].cue < Len(subs)) =>
                /\ Less(subs[events[e].cue].end, subs[events[e].cue + 1].start)
                /\ events[e].time # subs[events[e].cue + 1].start

\* C18 witness: a generation over two cues has emitted a clear event for the
\* first one.
C18_Witness ==
    /\ SingleTrackDone
    /\ Len(subs) = 2
    /\ ClearEmitted(1)

\* a step that changes the project: a layer made or changed, a key removed
\* or written, the template changed
HostMutation ==
    layers' # layers \/ templateLayer' # templateLayer \/ events' # events

\* the undo group is open
UndoGroupOpen == undoOpened = 1 /\ undoClosed = 0

\* C19: the generation is one transaction.  Every change of the project is
\* made while the undo group is open (after beginUndoGroup, before
\* endUndoGroup); a run that opens the group does not stop before it has
\* closed it, and closes it once; a run rejected by a precondition (no
\* composition, bad selection, input too short) opens no group and changes
\* nothing.
C19_OneUndoGroup ==
    /\ [][HostMutation => (UndoGroupOpen /\ UndoGroupOpen')]_vars
    /\ [](undoOpened <= 1 /\ undoClosed <= undoOpened)
    /\ [](UndoGroupOpen => (pc # "done" /\ ENABLED Next))
    /\ [](pc = "done" => undoClosed = undoOpened)
    /\ [](alerts # <<>> =>
              /\ undoOpened = 0
              /\ layers = <<>>
              /\ events = <<>>
              /\ templateLayer = NewTemplate(Len(templateLayer.keys)))

\* C19 witness: a generation has made its layers and hidden the template,
\* and its undo group was opened once and closed once.
C19_Witness ==
    /\ pc = "done"
    /\ undoOpened = 1
    /\ undoClosed = 1
    /\ layers # <<>>
    /\ ~templateLayer.enabled

\* the text of the target's key at time t (there is one for every cue start
\* once the loop has run)
KeyTextAt(t) ==
    LET keys == layers[1].keys
    IN  keys[CHOOSE k \in 1..Len(keys) : keys[k].time = t].text

\* the last cue, in sequence order, that starts when cue j starts
LastStartingWith(j) ==
    CHOOSE k \in j..Len(subs) :
        /\ subs[k].start = subs[j].start
        /\ \A m \in (k + 1)..Len(subs) : subs[m].start # subs[j].start

\* no clear event is written at a time at which a show event was written
\* before it, and the key at every cue's start holds the text of the last
\* cue that starts then
NoShowKeyLost ==
    /\ \A e \in 1..Len(events) :
          events[e].clear =>
              \A d \in 1..(e - 1) : events[d].clear \/ events[d].time # events[e].time
    /\ \A j \in 1..Len(subs) : KeyTextAt(subs[j].start) = subs[LastStartingWith(j)].text

\* C20: in single-layer mode no show key is lost to a clear key, for every
\* cue sequence parseSRT can return (zero-duration, overlapping and
\* out-of-order cues included).
C20_NoShowKeyLost ==
    SingleTrackDone => NoShowKeyLost

\* every cue ends after it starts, and no cue starts before the one before it
CuesStrictlyInOrder ==
    /\ \A k \in 1..Len(subs) : Less(subs[k].start, subs[k].end)
    /\ \A k \in 1..(Len(subs) - 1) : AtMost(subs[k].start, subs[k + 1].start)

\* a clear event was written at cue j's start by the last cue that starts
\* then or by a later cue
ClearedAfterShow(j) ==
    \E k \in LastStartingWith(j)..Len(subs) :
        ClearEmitted(k) /\ subs[k].end = subs[j].start

\* C20 as amended: the key at a cue's start holds the text of the last cue
\* that starts then, unless that cue or a later one has its end at that time
\* and gets a clear event, and then the key holds the empty text; no show
\* key is lost when every cue has start < end and the start times are
\* non-decreasing.
C20_ShowKeyLostOnlyToLaterClear ==
    SingleTrackDone =>
        /\ \A j \in 1..Len(subs) :
              KeyTextAt(subs[j].start) =
                  IF ClearedAfterShow(j) THEN <<>> ELSE subs[LastStartingWith(j)].text
        /\ CuesStrictlyInOrder => NoShowKeyLost

\* C20 witness: two cues that start at the same time and end later have been
\* generated, with a clear key after the second.
C20_Witness ==
    /\ SingleTrackDone
    /\ CuesStrictlyInOrder
    /\ Len(subs) = 2
    /\ subs[1].start = subs[2].start
    /\ subs[1].text # subs[2].text
    /\ ClearEmitted(2)

====
